---- MODULE Spec2Model ----
(***************************************************************************)
(* The sentinel's authentication-and-metering pipeline                     *)
(* (src/x/claim/client/cli/tx_add_claim.go, package sentinel): the proof   *)
(* codecs, the rate limiter registry, Proxy.auth, Proxy.paidTier and       *)
(* Proxy.freeTier, with one handler goroutine per in-flight request.       *)
(* Every access to a shared store (MemStore, ClaimStore, the visitors map) *)
(* is one step of a handler, so handlers interleave between store accesses *)
(* exactly as the goroutines of the HTTP server do.                        *)
(*                                                                         *)
(* Strings are sequences of one-character strings.  Go's int64 / uint64    *)
(* are modelled with IntBits bits.                                         *)
(***************************************************************************)
EXTENDS Integers, Sequences, FiniteSets, Bags, TLC

\* ------------------------------------------------------------------ bounds

\* width of the machine integers (int64 and uint64 in the source)
IntBits == 4
\* number of requests that can be in flight at the same time
MaxInFlight == 2
\* number of requests of one run
MaxRequests == 2
\* highest block height the MemStore observes
MaxHeight == 1

MaxInt64 == 2 ^ (IntBits - 1) - 1
MinInt64 == 0 - 2 ^ (IntBits - 1)
MaxUint64 == 2 ^ IntBits - 1

\* int64 arithmetic wraps around (two's complement)
WrapInt64(x) == ((x - MinInt64) % (2 ^ IntBits)) + MinInt64

\* ----------------------------------------------------------------- strings

DecDigits == <<"0", "1", "2", "3", "4", "5", "6", "7", "8", "9">>
HexDigits == DecDigits \o <<"a", "b", "c", "d", "e", "f">>
UpperHex == <<"A", "B", "C", "D", "E", "F">>

IsDecDigit(c) == \E i \in 1..10 : DecDigits[i] = c
DecValue(c) == (CHOOSE i \in 1..10 : DecDigits[i] = c) - 1

IsHexDigit(c) == (\E i \in 1..16 : HexDigits[i] = c) \/ (\E i \in 1..6 : UpperHex[i] = c)
HexValue(c) ==
    IF \E i \in 1..16 : HexDigits[i] = c
    THEN (CHOOSE i \in 1..16 : HexDigits[i] = c) - 1
    ELSE (CHOOSE i \in 1..6 : UpperHex[i] = c) + 9

\* strings.ToLower on one character (the letters the model uses)
Lower(c) ==
    IF \E i \in 1..6 : UpperHex[i] = c
    THEN HexDigits[(CHOOSE i \in 1..6 : UpperHex[i] = c) + 10]
    ELSE IF c = "I" THEN "i" ELSE IF c = "P" THEN "p" ELSE c

\* strings.EqualFold
EqualFold(s, t) ==
    /\ Len(s) = Len(t)
    /\ \A i \in 1..Len(s) : Lower(s[i]) = Lower(t[i])

\* the value of a string of decimal digits
RECURSIVE DigitsValue(_)
DigitsValue(s) ==
    IF s = <<>> THEN 0
    ELSE 10 * DigitsValue(SubSeq(s, 1, Len(s) - 1)) + DecValue(s[Len(s)])

\* the decimal digits of a natural number (fmt %d, strconv.FormatUint)
RECURSIVE FormatUint(_)
FormatUint(n) ==
    IF n < 10 THEN <<DecDigits[n + 1]>>
    ELSE FormatUint(n \div 10) \o <<DecDigits[(n % 10) + 1]>>

\* fmt %d of a signed integer
FormatInt(n) == IF n < 0 THEN <<"-">> \o FormatUint(0 - n) ELSE FormatUint(n)

\* strconv.ParseUint(s, 10, 64): digits only, no sign, within range
ParseUint(s) ==
    IF s = <<>> \/ (\E i \in 1..Len(s) : ~IsDecDigit(s[i]))
    THEN [err |-> TRUE, val |-> 0]
    ELSE IF DigitsValue(s) > MaxUint64
         THEN [err |-> TRUE, val |-> MaxUint64]
         ELSE [err |-> FALSE, val |-> DigitsValue(s)]

\* strconv.ParseInt(s, 10, 64): an optional sign, digits, within range
ParseInt(s) ==
    LET neg == s # <<>> /\ s[1] = "-"
        digits == IF s # <<>> /\ s[1] \in {"+", "-"} THEN Tail(s) ELSE s
    IN  IF digits = <<>> \/ (\E i \in 1..Len(digits) : ~IsDecDigit(digits[i]))
        THEN [err |-> TRUE, val |-> 0]
        ELSE IF neg /\ DigitsValue(digits) > 0 - MinInt64
             THEN [err |-> TRUE, val |-> MinInt64]
             ELSE IF ~neg /\ DigitsValue(digits) > MaxInt64
                  THEN [err |-> TRUE, val |-> MaxInt64]
                  ELSE [err |-> FALSE,
                        val |-> IF neg THEN 0 - DigitsValue(digits) ELSE DigitsValue(digits)]

\* hex.EncodeToString: two lower-case digits per byte
RECURSIVE HexEncode(_)
HexEncode(bytes) ==
    IF bytes = <<>> THEN <<>>
    ELSE <<HexDigits[(Head(bytes) \div 16) + 1], HexDigits[(Head(bytes) % 16) + 1]>>
         \o HexEncode(Tail(bytes))

RECURSIVE HexBytes(_)
HexBytes(s) ==
    IF Len(s) < 2 THEN <<>>
    ELSE <<16 * HexValue(s[1]) + HexValue(s[2])>> \o HexBytes(SubSeq(s, 3, Len(s)))

\* hex.DecodeString: an even number of hex digits of either case
HexDecode(s) ==
    IF Len(s) % 2 # 0 \/ (\E i \in 1..Len(s) : ~IsHexDigit(s[i]))
    THEN [err |-> TRUE, val |-> <<>>]
    ELSE [err |-> FALSE, val |-> HexBytes(s)]

\* the index of the first sep in s, 0 when there is none
IndexOf(s, sep) ==
    IF \E i \in 1..Len(s) : s[i] = sep
    THEN CHOOSE i \in 1..Len(s) : s[i] = sep /\ \A j \in 1..(i - 1) : s[j] # sep
    ELSE 0

\* strings.SplitN(s, sep, n) for n > 0: at most n parts, the last one unsplit
RECURSIVE SplitN(_, _, _)
SplitN(s, sep, n) ==
    IF n <= 1 \/ IndexOf(s, sep) = 0 THEN <<s>>
    ELSE <<SubSeq(s, 1, IndexOf(s, sep) - 1)>>
         \o SplitN(SubSeq(s, IndexOf(s, sep) + 1, Len(s)), sep, n - 1)

\* strings.Split(s, sep): every part
Split(s, sep) == SplitN(s, sep, Len(s) + 1)

\* ------------------------------------------------------------- proof codec

\* the zero value of ArkAuth (var aa ArkAuth)
ZeroArkAuth == [ContractId |-> 0, Spender |-> <<>>, Nonce |-> 0, Signature |-> <<>>]

\* "%d:%d" of the contract id and the nonce
GenerateMessageToSign(contractId, nonce) ==
    FormatUint(contractId) \o <<":">> \o FormatInt(nonce)

\* "%s:%s" of the message and the hex signature
GenerateArkAuthString(contractId, nonce, signature) ==
    GenerateMessageToSign(contractId, nonce) \o <<":">> \o HexEncode(signature)

\* ArkAuth.String
ArkAuthString(aa) == GenerateArkAuthString(aa.ContractId, aa.Nonce, aa.Signature)

\* parseArkAuth without the return on a nonce that does not parse: the nonce
\* stays what ParseInt left and parsing goes on
parseArkAuthKeepsGoing(raw) ==
    LET parts == SplitN(raw, ":", 3)
        id == ParseUint(parts[1])
        nonce == IF Len(parts) > 1 THEN ParseInt(parts[2]) ELSE [err |-> FALSE, val |-> 0]
        sig == IF Len(parts) > 2 THEN HexDecode(parts[3]) ELSE [err |-> FALSE, val |-> <<>>]
    IN  IF id.err THEN [err |-> TRUE, aa |-> [ZeroArkAuth EXCEPT !.ContractId = id.val]]
        ELSE [err |-> sig.err,
              aa |-> [ZeroArkAuth EXCEPT !.ContractId = id.val, !.Nonce = nonce.val,
                                         !.Signature = sig.val]]

\* parseArkAuth: each field is read only when its part is there, the first
\* failure is returned with the fields read so far
parseArkAuth(raw) ==
    LET parts == SplitN(raw, ":", 3)
        id == ParseUint(parts[1])
        nonce == IF Len(parts) > 1 THEN ParseInt(parts[2]) ELSE [err |-> FALSE, val |-> 0]
        sig == IF Len(parts) > 2 THEN HexDecode(parts[3]) ELSE [err |-> FALSE, val |-> <<>>]
    IN  IF id.err THEN [err |-> TRUE, aa |-> [ZeroArkAuth EXCEPT !.ContractId = id.val]]
        ELSE IF nonce.err
             THEN [err |-> TRUE,
                   aa |-> [ZeroArkAuth EXCEPT !.ContractId = id.val, !.Nonce = nonce.val]]
             ELSE [err |-> sig.err,
                   aa |-> [ZeroArkAuth EXCEPT !.ContractId = id.val, !.Nonce = nonce.val,
                                              !.Signature = sig.val]]

\* the zero value of ContractAuth (var auth ContractAuth)
ZeroContractAuth == [ContractId |-> 0, Timestamp |-> 0, Signature |-> <<>>]

\* parseContractAuth: the id is read when there is a part, the timestamp is
\* read from parts[1] under the same test, which is out of range when the text
\* has no colon (the goroutine panics); the signature when there is a third
\* part
parseContractAuth(raw) ==
    LET parts == SplitN(raw, ":", 3)
        id == ParseUint(parts[1])
        ts == IF Len(parts) > 1 THEN ParseInt(parts[2]) ELSE [err |-> FALSE, val |-> 0]
        sig == IF Len(parts) > 2 THEN HexDecode(parts[3]) ELSE [err |-> FALSE, val |-> <<>>]
        auth1 == [ZeroContractAuth EXCEPT !.ContractId = id.val]
        auth2 == [auth1 EXCEPT !.Timestamp = ts.val]
    IN  IF id.err THEN [err |-> TRUE, panicked |-> FALSE, auth |-> auth1]
        ELSE IF Len(parts) < 2 THEN [err |-> FALSE, panicked |-> TRUE, auth |-> auth1]
        ELSE IF ts.err THEN [err |-> TRUE, panicked |-> FALSE, auth |-> auth2]
        ELSE [err |-> sig.err, panicked |-> FALSE,
              auth |-> [auth2 EXCEPT !.Signature = sig.val]]

\* ContractAuth.String: "Contract Id: %d, Timestamp: %d, Signature: %s"
ContractAuthString(auth) ==
    <<"C", "o", "n", "t", "r", "a", "c", "t", " ", "I", "d", ":", " ">>
    \o FormatUint(auth.ContractId)
    \o <<",", " ", "T", "i", "m", "e", "s", "t", "a", "m", "p", ":", " ">>
    \o FormatInt(auth.Timestamp)
    \o <<",", " ", "S", "i", "g", "n", "a", "t", "u", "r", "e", ":", " ">>
    \o HexEncode(auth.Signature)

\* MsgClaimContractIncome.ValidateBasic on the message built from the proof:
\* structural checks only, a non-zero contract id and a non-empty signature
ValidateBasic(contractId, nonce, signature) ==
    contractId # 0 /\ signature # <<>>

\* ArkAuth.Validate(provider): nil (TRUE) when the message built from the proof
\* passes ValidateBasic; the contract's client key is no input of it
Validate(aa) == ValidateBasic(aa.ContractId, aa.Nonce, aa.Signature)

\* the signature the key allowed to spend on the contract produces over the
\* message contractId:nonce (one byte stands for the signature bytes)
Sign(contractId, nonce) == <<(16 * contractId + (nonce % 16)) % 256>>

\* any other non-empty byte string is a signature that does not verify
ForgedSignature == <<255>>

\* -------------------------------------------------------------- data model

\* the zero value of types.Contract, what a failed lookup leaves in `contract`
ZeroContract ==
    [Id |-> 0, Type |-> "SUBSCRIPTION", Authorization |-> "RESTRICTED", Service |-> 0,
     Deposit |-> <<>>, Rate |-> 0, Nonce |-> 0, QueriesPerMinute |-> 0,
     Height |-> 0, Duration |-> 0]

\* Contract.IsExpired(height): the height has passed the end of the contract
IsExpired(contract, h) == contract.Height + contract.Duration < h

\* cosmos.Int: <<>> is the nil Int, <<v>> holds v
IsNil(i) == i = <<>>

\* NewClaim(contractId, spender, nonce, signature)
NewClaim(contractId, spender, nonce, sig) ==
    [ContractId |-> contractId, Spender |-> spender, Nonce |-> nonce,
     Signature |-> sig, Claimed |-> FALSE]

\* Claim.Key and the MemStore key: the contract id in decimal
Key(contractId) == FormatUint(contractId)

\* common.NewService(name): the service of a known name, an error otherwise
NewService(name) ==
    IF name = <<"a">> THEN [err |-> FALSE, val |-> 1]
    ELSE IF name = <<"b">> THEN [err |-> FALSE, val |-> 2]
    ELSE [err |-> TRUE, val |-> 0]

\* the zero value of the contract configuration
ZeroConf == [WhitelistIPAddresses |-> <<>>, PerUserRateLimit |-> 0, AllowOrigins |-> <<>>]

\* ------------------------------------------------------------------ inputs

IP1 == <<"i", "p", "1">>
IP2 == <<"i", "p", "2">>

\* r.URL.Path: the contract's service, another service, no service
PathA == <<"/", "a", "/", "x">>
PathB == <<"/", "b">>
PathZ == <<"/", "z">>

\* a well-formed proof carrying the signature of the contract's signer
SignedProof(id, nonce) == GenerateArkAuthString(id, nonce, Sign(id, nonce))

\* a well-formed proof carrying a signature that does not verify
ForgedProof(id, nonce) == GenerateArkAuthString(id, nonce, ForgedSignature)

\* a proof that parses with fields missing: the id alone, no nonce and no
\* signature
ShortProof == <<"1">>

\* proofs that do not parse: empty, a bad id, a bad nonce, a nonce out of
\* range, bad hex, an odd number of hex digits
MalformedProofs ==
    {<<>>, <<"x", ":", "1">>, <<"1", ":", "x">>,
     GenerateMessageToSign(1, MaxInt64 + 1),
     <<"1", ":", "1", ":", "z", "z">>, <<"1", ":", "1", ":", "a">>}

\* a request: args[QueryArkAuth] (no value, or the values of the parameter), the
\* X-Real-Ip and X-Forwarded-For headers ("" when absent), r.RemoteAddr and
\* r.URL.Path
Request(args, realIP, forwardIP, peer, path) ==
    [args |-> args, realIP |-> realIP, forwardIP |-> forwardIP, peer |-> peer, path |-> path]

\* a request of the first address for the contract's service
Plain(args) == Request(args, <<>>, <<>>, IP1, PathA)

\* a contract with id 1 for service 1, rate 2, one query per minute, ending
\* at height 0
Contract1(type, authorization, deposit, nonce) ==
    [Id |-> 1, Type |-> type, Authorization |-> authorization, Service |-> 1,
     Deposit |-> deposit, Rate |-> 2, Nonce |-> nonce, QueriesPerMinute |-> 1,
     Height |-> 0, Duration |-> 0]

\* the same contract with two queries per minute
Contract2(type, authorization, deposit, nonce) ==
    [Contract1(type, authorization, deposit, nonce) EXCEPT !.QueriesPerMinute = 2]

\* the configuration with an allowlist, a per-user limit and a CORS origin
PolicyConf ==
    [WhitelistIPAddresses |-> <<<<"I", "P", "1">>>>, PerUserRateLimit |-> 1,
     AllowOrigins |-> <<<<"*">>>>]

\* a deployment: the cached contract, its configuration, and the requests its
\* callers send
Workload(contract, conf, requests) ==
    [contract |-> contract, conf |-> conf, requests |-> requests]

\* metering: a funded pay-as-you-go contract and signed proofs of rising
\* nonces from two addresses
MeteringWorkload ==
    Workload(Contract2("PAY_AS_YOU_GO", "RESTRICTED", <<4>>, 0), ZeroConf,
             {Plain(<<SignedProof(1, 1)>>),
              Request(<<SignedProof(1, 2)>>, <<>>, IP2, IP1, PathA)})

\* the same contract and a signed proof of the largest nonce
LargeNonceWorkload ==
    Workload(Contract2("PAY_AS_YOU_GO", "RESTRICTED", <<4>>, 0), ZeroConf,
             {Plain(<<SignedProof(1, MaxInt64)>>)})

\* deposits: a pay-as-you-go contract with no deposit or a deposit of one
\* query, and signed proofs
DepositWorkloads ==
    {Workload(Contract1("PAY_AS_YOU_GO", "RESTRICTED", d, 0), ZeroConf,
              {Plain(<<SignedProof(1, 1)>>), Plain(<<SignedProof(1, 2)>>)}) :
        d \in {<<>>, <<2>>}}

\* an open contract: requests with no proof, with the id alone, with a forged
\* proof
OpenWorkload ==
    Workload(Contract1("PAY_AS_YOU_GO", "OPEN", <<4>>, 0), ZeroConf,
             {Plain(<<>>), Plain(<<ShortProof>>), Plain(<<ForgedProof(1, 1)>>)})

\* a subscription whose nonce 2 is already settled on the ledger: signed proofs
\* from two addresses
SubscriptionWorkload ==
    Workload(Contract1("SUBSCRIPTION", "RESTRICTED", <<4>>, 2), ZeroConf,
             {Plain(<<SignedProof(1, 1)>>),
              Request(<<SignedProof(1, 2)>>, <<>>, IP2, IP1, PathA)})

\* the same subscription and a forged proof
ForgedWorkload ==
    Workload(Contract1("SUBSCRIPTION", "RESTRICTED", <<4>>, 2), ZeroConf,
             {Plain(<<ForgedProof(1, 1)>>)})

\* lookups that find no contract: a proof of a contract that is not cached,
\* no proof, from two addresses
LookupWorkload ==
    Workload(Contract1("SUBSCRIPTION", "RESTRICTED", <<4>>, 0), ZeroConf,
             {Plain(<<ForgedProof(2, 1)>>), Plain(<<>>),
              Request(<<>>, IP2, IP1, IP1, PathA)})

\* a contract with a policy: proofs from both addresses
PolicyWorkload ==
    Workload(Contract1("SUBSCRIPTION", "RESTRICTED", <<4>>, 0), PolicyConf,
             {Plain(<<SignedProof(1, 1)>>),
              Request(<<SignedProof(1, 1)>>, <<>>, IP2, IP1, PathA)})

\* paths that do not name the contract's service: another service, no service
ServiceWorkload ==
    Workload(Contract1("SUBSCRIPTION", "RESTRICTED", <<4>>, 0), PolicyConf,
             {Request(<<SignedProof(1, 1)>>, <<>>, <<>>, IP1, PathB),
              Request(<<SignedProof(1, 1)>>, <<>>, <<>>, IP1, PathZ)})

\* proofs that do not parse
MalformedWorkload ==
    Workload(Contract1("SUBSCRIPTION", "RESTRICTED", <<4>>, 0), PolicyConf,
             {Plain(<<raw>>) : raw \in MalformedProofs})

Workloads ==
    {MeteringWorkload, LargeNonceWorkload, OpenWorkload, SubscriptionWorkload,
     ForgedWorkload, LookupWorkload, PolicyWorkload, ServiceWorkload,
     MalformedWorkload}
    \cup DepositWorkloads

\* the proofs the codecs are run on: ids, nonces and timestamps at the ends
\* and in the middle of their ranges, signatures of no, one and two bytes,
\* with and without a spender
CodecIds == {0, 1, MaxUint64}
CodecInts == {MinInt64, 0 - 1, 0, 1, MaxInt64}
CodecSignatures == {<<>>, <<0>>, <<171>>, <<1, 255>>}
CodecSpenders == {<<>>, <<"p", "k">>}

ArkAuthProofs ==
    {[ContractId |-> id, Spender |-> sp, Nonce |-> n, Signature |-> sig] :
        id \in CodecIds, sp \in CodecSpenders, n \in CodecInts, sig \in CodecSignatures}

ContractAuthProofs ==
    {[ContractId |-> id, Timestamp |-> t, Signature |-> sig] :
        id \in CodecIds, t \in CodecInts, sig \in CodecSignatures}

\* ------------------------------------------------------------------- state

VARIABLES
    memStore,       \* MemStore: key -> cached contract
    blockHeight,    \* MemStore.GetHeight()
    claimStore,     \* ClaimStore: key -> last claim of the contract
    configStore,    \* ContractConfigStore: contract id -> configuration
    freeTierRateLimit, \* p.Config.FreeTierRateLimit
    visitors,       \* the limiter of each composite key
    requests,       \* the requests the callers of this deployment send
    req,            \* the bag of handler goroutines in flight, each with its locals
    returned,       \* <<q>> when the last step made handler q return, else <<>>
    served,         \* requests received so far
    paidCount,      \* history: requests forwarded at paid tier per <<contract id, nonce>>
    granted,        \* history: the calls of isRateLimited granted since the last refill
    codec           \* a proof on its way through a serializer and a parser

vars == <<memStore, blockHeight, claimStore, configStore, freeTierRateLimit, codec,
          visitors, requests, req, returned, served, paidCount, granted>>

\* the locals of auth when a request arrives: zero values.  code and ptErr are
\* what paidTier returned (0 before it returns); the last two fields are
\* history: the nonce of the stored claim when paidTier was called, and the
\* nonce of the stored claim paidTier read (<<>> for none)
NewReq ==
    [pc |-> "begin", args |-> <<>>, aa |-> ZeroArkAuth, remoteAddr |-> <<>>, path |-> <<>>,
     contract |-> ZeroContract, err |-> FALSE, conf |-> ZeroConf, cors |-> <<>>,
     ptContract |-> ZeroContract, claim |-> NewClaim(0, <<>>, 0, <<>>),
     code |-> 0, ptErr |-> "", status |-> 0, tier |-> "", forwarded |-> FALSE,
     panicked |-> FALSE, held |-> <<>>, read |-> <<>>]

\* no proof is on its way
NoCodec == [kind |-> "none", stage |-> "none"]

\* a proof before it is serialized
NewCodec(kind, proof) ==
    [kind |-> kind, stage |-> "proof", proof |-> proof, text |-> <<>>,
     err |-> FALSE, panicked |-> FALSE, parsed |-> proof]

Init ==
    /\ \E w \in Workloads :
          /\ memStore = [k \in {Key(w.contract.Id)} |-> w.contract]
          /\ configStore = [i \in {w.contract.Id} |-> w.conf]
          /\ requests = w.requests
    /\ blockHeight = 0
    /\ claimStore = <<>>
    /\ freeTierRateLimit = 1
    /\ visitors = <<>>
    /\ req = EmptyBag
    /\ returned = <<>>
    /\ served = 0
    /\ paidCount = <<>>
    /\ granted = EmptyBag
    /\ codec = NoCodec

\* ------------------------------------------------------------ the stores

\* MemStore.Get(key): the cached contract; an error and the zero contract when
\* the key is not cached or the store fails
MemStoreGet(key, fail) ==
    IF fail \/ key \notin DOMAIN memStore
    THEN [err |-> TRUE, contract |-> ZeroContract]
    ELSE [err |-> FALSE, contract |-> memStore[key]]

\* MemStore.Put(contract): the entry of the contract's key is replaced
MemStorePut(contract) ==
    [k \in DOMAIN memStore \cup {Key(contract.Id)} |->
        IF k = Key(contract.Id) THEN contract ELSE memStore[k]]

\* ClaimStore.Has(key)
ClaimStoreHas(key) == key \in DOMAIN claimStore

\* ClaimStore.Set(claim): the entry of the claim's key is replaced
ClaimStoreSet(claim) ==
    [k \in DOMAIN claimStore \cup {Key(claim.ContractId)} |->
        IF k = Key(claim.ContractId) THEN claim ELSE claimStore[k]]

\* ContractConfigStore.Get(id): the zero configuration on failure
ConfigStoreGet(id, fail) ==
    IF fail \/ id \notin DOMAIN configStore THEN ZeroConf ELSE configStore[id]

\* --------------------------------------------------------- the rate limiter

\* rate.NewLimiter(rate.Every(time.Minute), limitTokens): a full bucket of
\* limitTokens tokens that gains one token per minute
NewLimiter(limitTokens) == [burst |-> limitTokens, tokens |-> limitTokens]

\* limiter.Allow(): there is a token to take
Allow(limiter) == limiter.tokens >= 1

\* the composite key "%d-%s"
VisitorKey(contractId, key) == FormatUint(contractId) \o <<"-">> \o key

\* isRateLimited with a lost creation: a new limiter replaces the stored one
isRateLimitedCreatesAgain(contractId, key, limitTokens) ==
    LET k == VisitorKey(contractId, key)
        limiter == NewLimiter(limitTokens)
        after == IF Allow(limiter) THEN [limiter EXCEPT !.tokens = @ - 1] ELSE limiter
    IN  [limited |-> ~Allow(limiter),
         visitors |-> [x \in DOMAIN visitors \cup {k} |->
                          IF x = k THEN after ELSE visitors[x]]]

\* isRateLimited, under mu: looks the limiter of the key up, creates and stores
\* it when there is none, and takes a token; limited when there was none
isRateLimited(contractId, key, limitTokens) ==
    LET k == VisitorKey(contractId, key)
        exists == k \in DOMAIN visitors
        limiter == IF exists THEN visitors[k] ELSE NewLimiter(limitTokens)
        after == IF Allow(limiter) THEN [limiter EXCEPT !.tokens = @ - 1] ELSE limiter
    IN  [limited |-> ~Allow(limiter),
         visitors |-> [x \in DOMAIN visitors \cup {k} |->
                          IF x = k THEN after ELSE visitors[x]]]

\* history of a call isRateLimited(contractId, key, limitTokens) made for the
\* caller at remoteAddr: it is recorded when the call was granted
Granted(contractId, key, remoteAddr, limited) ==
    IF limited THEN granted
    ELSE granted (+) SetToBag({<<contractId, key, remoteAddr>>})

\* ------------------------------------------------------------- Proxy.auth

\* getRemoteAddr: X-Real-Ip, else X-Forwarded-For, else the peer address
getRemoteAddr(realIP, forwardIP, peer) ==
    IF realIP # <<>> THEN realIP
    ELSE IF forwardIP # <<>> THEN forwardIP
    ELSE peer

\* http.Error(w, ..., status) and return: the response is written
Respond(q, status) == [q EXCEPT !.pc = "done", !.status = status]

\* next.ServeHTTP(w, r) and return: the request goes to the backend
Forward(q) == [q EXCEPT !.pc = "done", !.status = 200, !.forwarded = TRUE]

\* a nil dereference: the handler's goroutine panics, net/http recovers it and
\* closes the connection with no response written
Panic(q) == [q EXCEPT !.pc = "done", !.panicked = TRUE]

\* handler q takes a step that leaves its locals as q2: it stays in flight, or
\* it has returned
Step(q, q2) ==
    IF q2.pc = "done"
    THEN /\ req' = req (-) SetToBag({q})
         /\ returned' = <<q2>>
    ELSE /\ req' = (req (-) SetToBag({q})) (+) SetToBag({q2})
         /\ returned' = <<>>

\* line 250 without the test of the lookup's error
EligibleIgnoresErr(q) == q.contract.Authorization = "OPEN" \/ Validate(q.aa)

\* line 250 without the open-contract disjunct: every proof is validated
EligibleValidatedOnly(q) == ~q.err /\ Validate(q.aa)

\* line 250: the lookup succeeded, and the contract is open or the proof
\* validates
Eligible(q) == ~q.err /\ (q.contract.Authorization = "OPEN" \/ Validate(q.aa))

\* auth, lines 250-270 up to the call of paidTier: the eligibility test and
\* the service gate.  With a parseable service other than the contract's, err
\* is nil and err.Error() is a nil dereference.
Eligibility(q) ==
    IF Eligible(q)
    THEN LET ser == NewService(Split(q.path, "/")[2])
             paid == [q EXCEPT !.tier = "paid"]
         IN  IF ser.err THEN Respond(paid, 401)
             ELSE IF ser.val # q.contract.Service THEN Panic(paid)
                  ELSE [paid EXCEPT !.pc = "paidGet"]
    ELSE [q EXCEPT !.pc = "free"]

\* auth, lines 201-218: a request arrives, its proof is parsed and the contract
\* it names is looked up
AuthBegin ==
    /\ served < MaxRequests
    /\ BagCardinality(req) < MaxInFlight
    /\ served' = served + 1
    /\ \E r \in requests, fail \in BOOLEAN :
          LET parsed == IF r.args # <<>> THEN parseArkAuth(r.args[1])
                        ELSE [err |-> FALSE, aa |-> ZeroArkAuth]
              got == MemStoreGet(Key(parsed.aa.ContractId), fail)
              q == [NewReq EXCEPT !.args = r.args, !.path = r.path,
                                  !.remoteAddr = getRemoteAddr(r.realIP, r.forwardIP, r.peer)]
              q2 == [q EXCEPT !.aa = parsed.aa, !.contract = got.contract, !.err = got.err]
              q3 == IF parsed.err THEN Respond(q, 400)
                    ELSE IF got.contract.Id > 0 THEN [q2 EXCEPT !.pc = "policy"]
                    ELSE Eligibility(q2)
          IN  IF q3.pc = "done"
              THEN req' = req /\ returned' = <<q3>>
              ELSE req' = req (+) SetToBag({q3}) /\ returned' = <<>>
    /\ UNCHANGED <<memStore, blockHeight, claimStore, configStore, freeTierRateLimit, codec,
                   requests, visitors, paidCount, granted>>

\* the allowlist of lines 228-240: some entry equals the address, case folded
Whitelisted(conf, remoteAddr) ==
    \E i \in 1..Len(conf.WhitelistIPAddresses) :
        EqualFold(remoteAddr, conf.WhitelistIPAddresses[i])

\* enableCORS: the header is set when the list is not empty
enableCORS(q, conf) ==
    IF Len(conf.AllowOrigins) > 0 THEN [q EXCEPT !.cors = conf.AllowOrigins] ELSE q

\* the policy step with the per-user limiter asked before the allowlist
AuthPolicyLimitsFirst(q0) ==
    /\ q0.pc = "policy"
    /\ \E fail \in BOOLEAN :
          LET conf == ConfigStoreGet(q0.contract.Id, fail)
              q == enableCORS([q0 EXCEPT !.conf = conf], conf)
              lim == isRateLimited(q.contract.Id, q.remoteAddr, conf.PerUserRateLimit)
              out == Len(conf.WhitelistIPAddresses) > 0 /\ ~Whitelisted(conf, q.remoteAddr)
          IN  IF conf.PerUserRateLimit > 0
              THEN /\ visitors' = lim.visitors
                   /\ granted' = Granted(q.contract.Id, q.remoteAddr, q.remoteAddr,
                                          lim.limited)
                   /\ Step(q0, IF lim.limited THEN Respond(q, 429)
                                ELSE IF out THEN Respond(q, 403) ELSE Eligibility(q))
              ELSE /\ Step(q0, IF out THEN Respond(q, 403) ELSE Eligibility(q))
                   /\ UNCHANGED <<visitors, granted>>
    /\ UNCHANGED <<memStore, blockHeight, claimStore, configStore, freeTierRateLimit, codec,
                   requests, served, paidCount>>

\* auth, lines 219-248: the contract's configuration, the CORS headers, the IP
\* allowlist and the per-user rate limit, then the eligibility test
AuthPolicy(q0) ==
    /\ q0.pc = "policy"
    /\ \E fail \in BOOLEAN :
          LET conf == ConfigStoreGet(q0.contract.Id, fail)
              q == enableCORS([q0 EXCEPT !.conf = conf], conf)
              lim == isRateLimited(q.contract.Id, q.remoteAddr, conf.PerUserRateLimit)
          IN  IF Len(conf.WhitelistIPAddresses) > 0 /\ ~Whitelisted(conf, q.remoteAddr)
              THEN /\ Step(q0, Respond(q, 403))
                   /\ UNCHANGED <<visitors, granted>>
              ELSE IF conf.PerUserRateLimit > 0
                   THEN /\ visitors' = lim.visitors
                        /\ granted' = Granted(q.contract.Id, q.remoteAddr, q.remoteAddr,
                                               lim.limited)
                        /\ Step(q0, IF lim.limited THEN Respond(q, 429) ELSE Eligibility(q))
                   ELSE /\ Step(q0, Eligibility(q))
                        /\ UNCHANGED <<visitors, granted>>
    /\ UNCHANGED <<memStore, blockHeight, claimStore, configStore, freeTierRateLimit, codec,
                   requests, served, paidCount>>

\* ----------------------------------------------------------- Proxy.paidTier

\* the errors of paidTier
ErrInternal == "internal server error"
ErrExpired == "open a contract"
ErrBadNonce == "bad nonce"
ErrSpent == "contract spent"
ErrRateLimited == "client is ratelimited"

\* a handler that answers with paidTier's error instead of going on
PaidRejectResponds(q, code, msg) ==
    [q EXCEPT !.pc = "done", !.code = code, !.ptErr = msg, !.status = code]

\* lines 263-270: paidTier returned an error, auth logs it and goes on to the
\* free tier
PaidReject(q, code, msg) == [q EXCEPT !.pc = "free", !.code = code, !.ptErr = msg]

\* lines 347-352: a pay-as-you-go contract needs a deposit of at least
\* nonce * rate, the product computed in int64
DepositCheck(q) ==
    IF /\ q.ptContract.Type = "PAY_AS_YOU_GO"
       /\ \/ IsNil(q.ptContract.Deposit)
          \/ q.ptContract.Deposit[1] < WrapInt64(q.aa.Nonce * q.ptContract.Rate)
    THEN PaidReject(q, 402, ErrSpent)
    ELSE [q EXCEPT !.pc = "paidLimit"]

\* the first step of paidTier without the expiry check
PaidGetNoExpiry(q) ==
    /\ q.pc = "paidGet"
    /\ \E fail \in BOOLEAN :
          LET got == MemStoreGet(Key(q.aa.ContractId), fail)
              q1 == [q EXCEPT !.held = IF ClaimStoreHas(Key(q.aa.ContractId))
                                       THEN <<claimStore[Key(q.aa.ContractId)].Nonce>>
                                       ELSE <<>>]
              q2 == [q1 EXCEPT !.ptContract = got.contract]
          IN  Step(q, IF got.err THEN PaidReject(q1, 500, ErrInternal)
                      ELSE [q2 EXCEPT !.pc = "paidClaim",
                                     !.claim = NewClaim(q.aa.ContractId, q.aa.Spender,
                                                        q.aa.Nonce,
                                                        HexEncode(q.aa.Signature))])
    /\ UNCHANGED <<memStore, blockHeight, claimStore, configStore, freeTierRateLimit, codec,
                   requests, visitors, served, paidCount, granted>>

\* lines 324-335: the contract is fetched again and checked against the
\* observed height, then the claim of this proof is built
PaidGet(q) ==
    /\ q.pc = "paidGet"
    /\ \E fail \in BOOLEAN :
          LET got == MemStoreGet(Key(q.aa.ContractId), fail)
              q1 == [q EXCEPT !.held = IF ClaimStoreHas(Key(q.aa.ContractId))
                                       THEN <<claimStore[Key(q.aa.ContractId)].Nonce>>
                                       ELSE <<>>]
              q2 == [q1 EXCEPT !.ptContract = got.contract]
          IN  Step(q, IF got.err THEN PaidReject(q1, 500, ErrInternal)
                      ELSE IF IsExpired(got.contract, blockHeight)
                           THEN PaidReject(q2, 402, ErrExpired)
                           ELSE [q2 EXCEPT !.pc = "paidClaim",
                                          !.claim = NewClaim(q.aa.ContractId, q.aa.Spender,
                                                             q.aa.Nonce,
                                                             HexEncode(q.aa.Signature))])
    /\ UNCHANGED <<memStore, blockHeight, claimStore, configStore, freeTierRateLimit, codec,
                   requests, visitors, served, paidCount, granted>>

\* the replay test with > for >=: the stored nonce itself passes
IsReplayStrict(claim, aa) == claim.Nonce > aa.Nonce

\* lines 342-344: a proof whose nonce is not above the stored claim's is a replay
IsReplay(claim, aa) == claim.Nonce >= aa.Nonce

\* lines 336-352: when the ClaimStore has a claim of the contract it is read
\* and the proof's nonce is checked against its nonce; then the deposit check
PaidClaim(q) ==
    /\ q.pc = "paidClaim"
    /\ \E fail \in BOOLEAN :
          IF ClaimStoreHas(Key(q.aa.ContractId))
          THEN LET stored == claimStore[Key(q.aa.ContractId)]
                   q1 == [q EXCEPT !.claim = stored, !.read = <<stored.Nonce>>]
               IN  Step(q, IF fail THEN PaidReject(q, 500, ErrInternal)
                           ELSE IF IsReplay(stored, q.aa)
                                THEN PaidReject(q1, 400, ErrBadNonce)
                                ELSE DepositCheck(q1))
          ELSE Step(q, DepositCheck(q))
    /\ UNCHANGED <<memStore, blockHeight, claimStore, configStore, freeTierRateLimit, codec,
                   requests, visitors, served, paidCount, granted>>

\* the limiter step with the claim written before the limiter is asked
PaidLimitWritesFirst(q) ==
    /\ q.pc = "paidLimit"
    /\ LET lim == isRateLimited(q.ptContract.Id, Key(q.aa.ContractId),
                                q.ptContract.QueriesPerMinute)
           claim == [q.claim EXCEPT !.Nonce = q.aa.Nonce,
                                    !.Signature = HexEncode(q.aa.Signature),
                                    !.Claimed = FALSE]
       IN  /\ visitors' = lim.visitors
           /\ granted' = Granted(q.ptContract.Id, Key(q.aa.ContractId), q.remoteAddr,
                                  lim.limited)
           /\ claimStore' = ClaimStoreSet(claim)
           /\ Step(q, IF lim.limited THEN PaidReject(q, 429, ErrRateLimited)
                      ELSE [q EXCEPT !.pc = "paidSet", !.claim = claim])
    /\ UNCHANGED <<memStore, blockHeight, configStore, freeTierRateLimit, codec,
                   requests, served, paidCount>>

\* lines 354-360: the contract's limiter, keyed by the contract id and the
\* contract's key, then the claim takes the proof's nonce and signature
PaidLimit(q) ==
    /\ q.pc = "paidLimit"
    /\ LET lim == isRateLimited(q.ptContract.Id, Key(q.aa.ContractId),
                                q.ptContract.QueriesPerMinute)
       IN  /\ visitors' = lim.visitors
           /\ granted' = Granted(q.ptContract.Id, Key(q.aa.ContractId), q.remoteAddr,
                                  lim.limited)
           /\ Step(q, IF lim.limited THEN PaidReject(q, 429, ErrRateLimited)
                      ELSE [q EXCEPT !.pc = "paidSet",
                                     !.claim = [q.claim EXCEPT
                                                  !.Nonce = q.aa.Nonce,
                                                  !.Signature = HexEncode(q.aa.Signature),
                                                  !.Claimed = FALSE]])
    /\ UNCHANGED <<memStore, blockHeight, claimStore, configStore, freeTierRateLimit, codec,
                   requests, served, paidCount>>

\* lines 361-363: the claim is written
PaidSet(q) ==
    /\ q.pc = "paidSet"
    /\ \E fail \in BOOLEAN :
          IF fail
          THEN /\ Step(q, PaidReject(q, 500, ErrInternal))
               /\ UNCHANGED claimStore
          ELSE /\ claimStore' = ClaimStoreSet(q.claim)
               /\ Step(q, [q EXCEPT !.pc = "paidPut"])
    /\ UNCHANGED <<memStore, blockHeight, configStore, freeTierRateLimit, codec,
                   requests, visitors, served, paidCount, granted>>

\* a write-back that leaves the contract's nonce as it was fetched
SetNonceSkipped(contract, aa) == contract

\* line 364: contract.Nonce = aa.Nonce
SetNonce(contract, aa) == [contract EXCEPT !.Nonce = aa.Nonce]

\* lines 364-366 and 265-267: the contract is written back with the proof's
\* nonce, paidTier returns OK and the request is forwarded at paid tier
PaidPut(q) ==
    /\ q.pc = "paidPut"
    /\ LET k == <<q.aa.ContractId, q.aa.Nonce>>
       IN  /\ memStore' = MemStorePut(SetNonce(q.ptContract, q.aa))
           /\ Step(q, Forward([q EXCEPT !.code = 200]))
           /\ paidCount' = [x \in DOMAIN paidCount \cup {k} |->
                              IF x = k
                              THEN (IF k \in DOMAIN paidCount THEN paidCount[k] ELSE 0) + 1
                              ELSE paidCount[x]]
    /\ UNCHANGED <<blockHeight, claimStore, configStore, freeTierRateLimit, codec,
                   requests, visitors, served, granted>>

\* ----------------------------------------------------------- Proxy.freeTier

\* freeTier: the limiter of contract id 0 and the caller's address; 429 when
\* it is limited, OK otherwise
freeTier(remoteAddr) ==
    LET lim == isRateLimited(0, remoteAddr, freeTierRateLimit)
    IN  [code |-> IF lim.limited THEN 429 ELSE 200, visitors |-> lim.visitors]

\* auth, lines 272-280: the tier header says free, then freeTier decides
\* between the error and the backend
FreeTier(q0) ==
    /\ q0.pc = "free"
    /\ LET q == [q0 EXCEPT !.tier = "free"]
           free == freeTier(q.remoteAddr)
       IN  /\ visitors' = free.visitors
           /\ granted' = Granted(0, q.remoteAddr, q.remoteAddr, free.code # 200)
           /\ Step(q0, IF free.code # 200 THEN Respond(q, free.code) ELSE Forward(q))
    /\ UNCHANGED <<memStore, blockHeight, claimStore, configStore, freeTierRateLimit, codec,
                   requests, served, paidCount>>

\* ------------------------------------------------------------- environment

\* a minute passes: every limiter gains one token, up to its burst
Tick ==
    /\ \E k \in DOMAIN visitors : visitors[k].tokens < visitors[k].burst
    /\ visitors' = [k \in DOMAIN visitors |->
                      [visitors[k] EXCEPT !.tokens = IF @ < visitors[k].burst THEN @ + 1 ELSE @]]
    /\ returned' = <<>>
    /\ granted' = EmptyBag
    /\ UNCHANGED <<memStore, blockHeight, claimStore, configStore, freeTierRateLimit, codec,
                   requests, req, served, paidCount>>

\* the MemStore observes a new block
AdvanceHeight ==
    /\ blockHeight < MaxHeight
    /\ blockHeight' = blockHeight + 1
    /\ returned' = <<>>
    /\ UNCHANGED <<memStore, claimStore, configStore, freeTierRateLimit, codec,
                   requests, visitors, req, served, paidCount, granted>>

InFlight == BagToSet(req)

Next ==
    \/ AuthBegin
    \/ \E q \in InFlight : AuthPolicy(q)
    \/ \E q \in InFlight : PaidGet(q)
    \/ \E q \in InFlight : PaidClaim(q)
    \/ \E q \in InFlight : PaidLimit(q)
    \/ \E q \in InFlight : PaidSet(q)
    \/ \E q \in InFlight : PaidPut(q)
    \/ \E q \in InFlight : FreeTier(q)
    \/ Tick
    \/ AdvanceHeight

Spec == Init /\ [][Next]_vars

\* ------------------------------------------------------------- the codecs

\* the sentinel's state, which the codecs leave alone
sentinelVars == <<memStore, blockHeight, claimStore, configStore, freeTierRateLimit,
                  visitors, requests, req, returned, served, paidCount, granted>>

\* a proof of either form is given to its serializer
CodecInit ==
    /\ codec \in {NewCodec("ArkAuth", p) : p \in ArkAuthProofs}
               \cup {NewCodec("ContractAuth", p) : p \in ContractAuthProofs}
    /\ memStore = <<>>
    /\ blockHeight = 0
    /\ claimStore = <<>>
    /\ configStore = <<>>
    /\ freeTierRateLimit = 1
    /\ visitors = <<>>
    /\ requests = {}
    /\ req = EmptyBag
    /\ returned = <<>>
    /\ served = 0
    /\ paidCount = <<>>
    /\ granted = EmptyBag

\* ArkAuth.String
SerializeArkAuth ==
    /\ codec.kind = "ArkAuth"
    /\ codec.stage = "proof"
    /\ codec' = [codec EXCEPT !.stage = "text", !.text = ArkAuthString(codec.proof)]
    /\ UNCHANGED sentinelVars

\* parseArkAuth on the text
ParseArkAuthText ==
    /\ codec.kind = "ArkAuth"
    /\ codec.stage = "text"
    /\ LET parsed == parseArkAuth(codec.text)
       IN  codec' = [codec EXCEPT !.stage = "parsed", !.err = parsed.err,
                                  !.parsed = parsed.aa]
    /\ UNCHANGED sentinelVars

\* ContractAuth.String
SerializeContractAuth ==
    /\ codec.kind = "ContractAuth"
    /\ codec.stage = "proof"
    /\ codec' = [codec EXCEPT !.stage = "text", !.text = ContractAuthString(codec.proof)]
    /\ UNCHANGED sentinelVars

\* parseContractAuth on the text
ParseContractAuthText ==
    /\ codec.kind = "ContractAuth"
    /\ codec.stage = "text"
    /\ LET parsed == parseContractAuth(codec.text)
       IN  codec' = [codec EXCEPT !.stage = "parsed", !.err = parsed.err,
                                  !.panicked = parsed.panicked, !.parsed = parsed.auth]
    /\ UNCHANGED sentinelVars

CodecNext ==
    \/ SerializeArkAuth
    \/ ParseArkAuthText
    \/ SerializeContractAuth
    \/ ParseContractAuthText

CodecSpec == CodecInit /\ [][CodecNext]_vars

\* -------------------------------------------------------------- properties

\* the handler that returned in the last step, if any
Finished == {returned[i] : i \in DOMAIN returned}

\* every handler the state shows: those in flight and the one that returned
Handlers == InFlight \cup Finished

\* the proof carries the signature of the contract's signer
ValidProof(q) == q.aa.Signature = Sign(q.aa.ContractId, q.aa.Nonce)

\* paidTier has returned to the handler
PaidTierReturned(q) == q.code # 0

\* the handler was forwarded to the backend at paid tier
ServedPaid(q) == q.pc = "done" /\ q.forwarded /\ q.tier = "paid"

\* the handler has passed the contract limiter and is writing the stores
Committing(q) == q.pc \in {"paidSet", "paidPut"}

\* C1, as the specification states it: whenever the claim store holds a claim
\* of nonce N for the contract when paidTier is called with a proof of nonce
\* at most N, paidTier returns 400 (a failing store aside).
C1_ReplayAlways400 ==
    \A q \in Handlers :
        (/\ PaidTierReturned(q)
         /\ q.ptErr # ErrInternal
         /\ q.held # <<>>
         /\ q.aa.Nonce <= q.held[1]) => q.code = 400

\* C1, amended: a call of paidTier whose replay check reads a stored claim of
\* nonce N while the proof's nonce is at most N is rejected with 400 "bad
\* nonce", whatever the signature; it never reaches the contract limiter or
\* the writes, and the request is never forwarded at paid tier.
C1_ReplayRejected ==
    \A q \in Handlers :
        (q.read # <<>> /\ q.aa.Nonce <= q.read[1]) =>
            /\ q.code = 400
            /\ q.ptErr = ErrBadNonce
            /\ q.pc \in {"free", "done"}
            /\ ~ServedPaid(q)

\* a replay with a valid signature, at the stored nonce, has been rejected
C1_Witness ==
    \E q \in Finished :
        /\ ValidProof(q)
        /\ q.read = <<q.aa.Nonce>>
        /\ q.code = 400
        /\ q.tier = "free"

\* C2, as the specification states it: after paidTier accepts nonce K the
\* claim store and the cached contract both hold K; a following request with
\* nonce K + 1 and a valid proof is accepted, one with K or less is rejected
\* (a failing store aside).
C2_CommitThenNextAccepted ==
    /\ \A q \in Finished :
          q.code = 200 =>
              /\ claimStore[Key(q.aa.ContractId)].Nonce = q.aa.Nonce
              /\ memStore[Key(q.aa.ContractId)].Nonce = q.aa.Nonce
    /\ \A q \in Handlers :
          (/\ PaidTierReturned(q)
           /\ q.ptErr # ErrInternal
           /\ q.held # <<>>
           /\ ValidProof(q)) =>
              /\ q.aa.Nonce = q.held[1] + 1 => q.code = 200
              /\ q.aa.Nonce <= q.held[1] => q.code # 200

\* the deposit check of lines 348-352 as the code computes it
DepositShort(q) ==
    /\ q.ptContract.Type = "PAY_AS_YOU_GO"
    /\ \/ IsNil(q.ptContract.Deposit)
       \/ q.ptContract.Deposit[1] < WrapInt64(q.aa.Nonce * q.ptContract.Rate)

\* C2, amended: when paidTier accepts nonce K, the claim it wrote carries K and
\* the cached contract holds nonce K as paidTier returns, and the request is
\* forwarded at paid tier; a request whose replay check reads the stored nonce
\* N with a proof nonce above N is never rejected as a replay: it is accepted
\* unless the deposit check (402), the contract limiter (429) or the claim
\* write (500) rejects it; with a proof nonce of N or less it is not accepted.
C2_MonotonicCommit ==
    /\ \A q \in Finished :
          q.code = 200 =>
              /\ memStore[Key(q.aa.ContractId)].Nonce = q.aa.Nonce
              /\ q.claim.Nonce = q.aa.Nonce
              /\ ServedPaid(q)
    /\ \A q \in InFlight : Committing(q) => q.claim.Nonce = q.aa.Nonce
    /\ \A q \in Handlers :
          q.read # <<>> =>
              /\ q.aa.Nonce <= q.read[1] => (q.code \notin {0, 200} /\ ~Committing(q))
              /\ (q.aa.Nonce > q.read[1] /\ PaidTierReturned(q)) =>
                    \/ q.code = 200
                    \/ q.code = 402 /\ q.ptErr = ErrSpent /\ DepositShort(q)
                    \/ q.code = 429 /\ q.ptErr = ErrRateLimited
                    \/ q.code = 500 /\ q.ptErr = ErrInternal

\* nonce K + 1 with a valid proof has been accepted after nonce K
C2_Witness ==
    \E q \in Finished :
        /\ q.code = 200
        /\ ValidProof(q)
        /\ q.read = <<q.aa.Nonce - 1>>
        /\ memStore[Key(q.aa.ContractId)].Nonce = q.aa.Nonce
        /\ claimStore[Key(q.aa.ContractId)].Nonce = q.aa.Nonce

\* handler q writes its claim in this step (ClaimStore.Set succeeds)
ClaimWrite(q) ==
    /\ q.pc = "paidSet"
    /\ req' = (req (-) SetToBag({q})) (+) SetToBag({[q EXCEPT !.pc = "paidPut"]})

\* C3: under any interleaving of concurrent requests for one contract, every
\* write of the claim store leaves the contract's claim at a strictly higher
\* nonce than it held before the write.
C3_ClaimNonceIncreases ==
    [][\A q \in InFlight :
          (ClaimWrite(q) /\ ClaimStoreHas(Key(q.claim.ContractId))) =>
              claimStore'[Key(q.claim.ContractId)].Nonce
                  > claimStore[Key(q.claim.ContractId)].Nonce]_vars

\* C4: no contract id and nonce is forwarded at paid tier more than once,
\* however the requests interleave.
C4_NoDoubleSpend == \A k \in DOMAIN paidCount : paidCount[k] <= 1

\* handler q writes the contract back and paidTier returns OK in this step
ContractWrite(q) ==
    /\ q.pc = "paidPut"
    /\ req' = req (-) SetToBag({q})
    /\ returned' # <<>>

\* C5: an accepted request never lowers the cached contract's nonce, also
\* when the claim store has no record of the contract, and its nonce is
\* strictly above the nonce of the last claim.
C5_ContractNonceNeverDecreases ==
    [][\A q \in InFlight :
          ContractWrite(q) =>
              /\ memStore'[Key(q.aa.ContractId)].Nonce >= memStore[Key(q.aa.ContractId)].Nonce
              /\ q.read # <<>> => q.aa.Nonce > q.read[1]]_vars

\* C6: for a pay-as-you-go contract of deposit D and rate R, a proof of nonce n
\* that no replay check or rate limit blocks passes the deposit check exactly
\* when D >= n * R, for every nonce the parser lets through; a nil deposit is
\* rejected with 402.
C6_DepositBoundary ==
    \A q \in Handlers :
        (/\ q.ptContract.Type = "PAY_AS_YOU_GO"
         /\ q.code = 200 \/ q.ptErr = ErrSpent) =>
            /\ q.code = 200 <=>
                  (/\ ~IsNil(q.ptContract.Deposit)
                   /\ q.ptContract.Deposit[1] >= q.aa.Nonce * q.ptContract.Rate)
            /\ IsNil(q.ptContract.Deposit) => q.code = 402

\* C7: a request whose proof names a cached RESTRICTED contract and carries a
\* signature that does not verify is never forwarded at paid tier: when it is
\* forwarded, it is at the free tier.
C7_InvalidSignatureNeverPaid ==
    \A q \in Finished :
        (/\ q.args # <<>>
         /\ q.contract.Id > 0
         /\ q.contract.Authorization = "RESTRICTED"
         /\ q.tier # ""
         /\ ~ValidProof(q)) =>
            /\ ~ServedPaid(q)
            /\ q.forwarded => q.tier = "free"

\* the contract of the cache is open, not expired, and for the service of
\* the path
OpenFor(contract, path) ==
    /\ contract.Authorization = "OPEN"
    /\ ~IsExpired(contract, blockHeight)
    /\ NewService(Split(path, "/")[2]) = [err |-> FALSE, val |-> contract.Service]

\* C8, as the specification states it: when the cache holds an open, unexpired
\* contract for the service of the path, a request with no proof is forwarded
\* at paid tier, rate limiting aside.
C8_OpenServesNoProof ==
    \A q \in Finished :
        (q.args = <<>> /\ \E k \in DOMAIN memStore : OpenFor(memStore[k], q.path)) =>
            ServedPaid(q) \/ q.status = 429

\* C8, amended: a request with no proof resolves to contract id 0, is never
\* handed to paidTier and ends at the free tier; a request whose proof names
\* a cached open contract for the service of the path is handed to paidTier
\* once the allowlist and the per-user limit let it through, whether or not
\* the proof validates, and is forwarded at paid tier when paidTier accepts it
\* and at the free tier otherwise.
C8_OpenBypass ==
    \A q \in Finished :
        /\ q.args = <<>> =>
              /\ ~PaidTierReturned(q)
              /\ q.tier = "free"
              /\ (q.status = 200 /\ q.forwarded) \/ (q.status = 429 /\ ~q.forwarded)
        /\ (/\ ~q.err
            /\ q.contract.Id > 0
            /\ q.contract.Authorization = "OPEN"
            /\ NewService(Split(q.path, "/")[2]) = [err |-> FALSE, val |-> q.contract.Service]
            /\ q.tier # "") =>
              /\ PaidTierReturned(q)
              /\ q.code = 200 => ServedPaid(q)
              /\ q.code # 200 => q.tier = "free"

\* a proof with no signature on an open contract has been served at paid tier
C8_Witness ==
    \E q \in Finished :
        /\ q.contract.Authorization = "OPEN"
        /\ ~Validate(q.aa)
        /\ q.code = 200
        /\ ServedPaid(q)

\* the free-tier limiter of the address has a token to give
FreeLimiterAllows(remoteAddr) ==
    IF VisitorKey(0, remoteAddr) \in DOMAIN visitors
    THEN Allow(visitors[VisitorKey(0, remoteAddr)])
    ELSE freeTierRateLimit >= 1

\* handler q leaves the free tier in this step as r
FreeTierReturn(q, r) ==
    /\ q.pc = "free"
    /\ req' = req (-) SetToBag({q})
    /\ returned' = <<r>>
    /\ r.remoteAddr = q.remoteAddr
    /\ r.code = q.code

\* C9: whatever the error of paidTier (expiry, replay, deposit, contract rate
\* limit, store failure), the request is not answered with that error: the
\* handler goes on to the free tier, where the request is forwarded with tier
\* "free" when the limiter of contract id 0 and the caller's address allows
\* it, and answered 429 otherwise.
C9_PaidRejectionFallsBack ==
    [][/\ \A q \in BagToSet(req') :
             (q.code \notin {0, 200}) => q.pc = "free"
       /\ \A i \in DOMAIN returned' :
             (returned'[i].code \notin {0, 200}) =>
                 /\ returned'[i].tier = "free"
                 /\ \/ returned'[i].status = 200 /\ returned'[i].forwarded
                    \/ returned'[i].status = 429 /\ ~returned'[i].forwarded
       /\ \A q \in InFlight : \A i \in DOMAIN returned' :
             (q.code \notin {0, 200} /\ FreeTierReturn(q, returned'[i])) =>
                 (returned'[i].forwarded <=> FreeLimiterAllows(q.remoteAddr))]_vars

\* a request the contract limiter rejected has been forwarded at the free tier
C9_Witness ==
    \E q \in Finished :
        /\ q.code = 429
        /\ q.ptErr = ErrRateLimited
        /\ q.tier = "free"
        /\ q.status = 200
        /\ q.forwarded

\* C10: a request whose proof does not parse is answered 400 by the step that
\* receives it: it is not forwarded, no tier is set, no contract is looked up
\* and no limiter, claim or contract changes.
C10_MalformedProofIs400 ==
    [][\A i \in DOMAIN returned' :
          (returned'[i].args # <<>> /\ returned'[i].args[1] \in MalformedProofs) =>
              /\ returned'[i].status = 400
              /\ ~returned'[i].forwarded
              /\ returned'[i].tier = ""
              /\ returned'[i].code = 0
              /\ returned'[i].contract = ZeroContract
              /\ ~returned'[i].err
              /\ UNCHANGED <<memStore, claimStore, visitors, paidCount, req>>]_vars

\* a proof that does not parse has been answered 400
C10_Witness ==
    \E q \in Finished :
        /\ q.args # <<>>
        /\ q.args[1] \in MalformedProofs
        /\ q.status = 400
        /\ ~q.forwarded

\* the number of grants the events of S stand for
RECURSIVE SumCopies(_)
SumCopies(S) ==
    IF S = {} THEN 0
    ELSE LET e == CHOOSE x \in S : TRUE
         IN  CopiesIn(e, granted) + SumCopies(S \ {e})

\* the calls granted for the composite key k since the last refill
GrantsFor(k) == SumCopies({e \in BagToSet(granted) : VisitorKey(e[1], e[2]) = k})

\* C11: however the first calls of isRateLimited for one composite key
\* interleave, the key has one stored limiter that every caller draws from:
\* every granted call took a token of the stored limiter, its tokens stay
\* between 0 and its burst, and while no refill occurs the calls granted for
\* the key never exceed the burst.
C11_OneLimiterPerKey ==
    /\ \A e \in BagToSet(granted) : VisitorKey(e[1], e[2]) \in DOMAIN visitors
    /\ \A k \in DOMAIN visitors :
          /\ visitors[k].tokens >= 0
          /\ visitors[k].tokens <= visitors[k].burst
          /\ GrantsFor(k) + visitors[k].tokens <= visitors[k].burst

\* a key whose burst was granted and whose next caller was turned away
C11_Witness ==
    \E q \in Finished :
        /\ q.status = 429
        /\ q.tier = "free"
        /\ visitors[VisitorKey(0, q.remoteAddr)].burst >= 1
        /\ GrantsFor(VisitorKey(0, q.remoteAddr)) = visitors[VisitorKey(0, q.remoteAddr)].burst

\* the first path segment names the contract's service
ServiceMatches(q) ==
    NewService(Split(q.path, "/")[2]) = [err |-> FALSE, val |-> q.contract.Service]

\* C12: a request that is eligible for the paid path and whose first path
\* segment is no service, or a service other than the contract's, is answered
\* 401 and ends there: it is not forwarded and paidTier is not called.
C12_ServiceGate401 ==
    \A q \in Finished :
        (q.tier # "" /\ Eligible(q) /\ ~ServiceMatches(q)) =>
            /\ q.status = 401
            /\ ~q.forwarded
            /\ ~PaidTierReturned(q)

\* handler q takes this step
Stepped(q) == CopiesIn(q, req') < CopiesIn(q, req)

\* q2 is what the handler of this step became, when it is still in flight
Entered(q2) == CopiesIn(q2, req') > CopiesIn(q2, req)

\* the cached contract of the proof is expired at the observed height
ExpiredNow(q) ==
    /\ Key(q.aa.ContractId) \in DOMAIN memStore
    /\ IsExpired(memStore[Key(q.aa.ContractId)], blockHeight)

\* C13: when paidTier is called for a contract that is expired at the observed
\* height, it rejects the call at its first step, before any claim or contract
\* write, whatever the proof, its nonce and the contract's authorization: with
\* 402 "open a contract" (500 when the read of the contract fails); the
\* handler goes on to the free tier.
C13_ExpiredNeverPaid ==
    [][\A q \in InFlight :
          (q.pc = "paidGet" /\ Stepped(q) /\ ExpiredNow(q)) =>
              /\ UNCHANGED <<claimStore, memStore>>
              /\ returned' = <<>>
              /\ \A q2 \in BagToSet(req') :
                    Entered(q2) =>
                        /\ q2.pc = "free"
                        /\ \/ q2.code = 402 /\ q2.ptErr = ErrExpired
                           \/ q2.code = 500 /\ q2.ptErr = ErrInternal]_vars

\* a valid proof on an expired contract was rejected with 402 and served free
C13_Witness ==
    \E q \in Finished :
        /\ ValidProof(q)
        /\ q.code = 402
        /\ q.ptErr = ErrExpired
        /\ q.tier = "free"
        /\ claimStore = <<>>

\* C14: a store failure inside paidTier (the re-read of the contract, the read
\* of the prior claim, the write of the claim) ends the request with HTTP 500,
\* not forwarded and not degraded to the free tier.
C14_CommitStoreFailureIs500 ==
    \A q \in Finished :
        q.ptErr = ErrInternal => (q.status = 500 /\ ~q.forwarded /\ q.tier # "free")

\* the caller's address matches no entry of a non-empty allowlist
NotAllowed(q) ==
    /\ q.contract.Id > 0
    /\ Len(q.conf.WhitelistIPAddresses) > 0
    /\ \A i \in 1..Len(q.conf.WhitelistIPAddresses) :
          ~EqualFold(q.remoteAddr, q.conf.WhitelistIPAddresses[i])

\* C15: for a resolved contract whose configuration has a non-empty allowlist,
\* a request whose address matches no entry, case folded, is answered 403 by
\* the policy step and ends there: it is not forwarded, no tier is set,
\* paidTier is not called, and no limiter, claim or contract changes.
C15_AllowlistIs403 ==
    [][/\ \A q \in BagToSet(req') : q.pc = "policy" \/ ~NotAllowed(q)
       /\ \A i \in DOMAIN returned' :
             NotAllowed(returned'[i]) =>
                 /\ returned'[i].status = 403
                 /\ ~returned'[i].forwarded
                 /\ returned'[i].tier = ""
                 /\ ~PaidTierReturned(returned'[i])
                 /\ UNCHANGED <<visitors, granted, claimStore, memStore, paidCount>>]_vars

\* a caller outside the allowlist was answered 403, a listed one was not
C15_Witness ==
    \E q \in Finished :
        /\ NotAllowed(q)
        /\ q.status = 403
        /\ ~q.forwarded

\* C16: for every well-formed proof of either form, parsing the string its
\* serializer produces succeeds and yields a proof equal to it in every field.
C16_RoundTrip ==
    codec.stage = "parsed" =>
        /\ ~codec.err
        /\ ~codec.panicked
        /\ codec.parsed = codec.proof

\* C17: a handler whose contract lookup failed (the contract is not cached, the
\* store failed, or no proof was given and contract 0 is not cached) never
\* calls paidTier, so it writes no claim and no contract; it goes to the free
\* tier only, and it ends forwarded on the free tier or refused 429 by it.
C17_FailedLookupNeverPaid ==
    \A q \in Handlers :
        q.err =>
            /\ q.code = 0
            /\ q.ptContract = NewReq.ptContract
            /\ q.claim = NewReq.claim
            /\ q.pc \in {"free", "done"}
            /\ q.tier # "paid"
            /\ q.pc = "done" =>
                  /\ q.tier = "free"
                  /\ ~q.panicked
                  /\ \/ q.forwarded /\ q.status = 200
                     \/ ~q.forwarded /\ q.status = 429

\* a proof that validates names a contract the lookup does not find, and the
\* request has been forwarded on the free tier
C17_Witness ==
    \E q \in Finished :
        /\ q.err
        /\ q.args # <<>>
        /\ Validate(q.aa)
        /\ q.forwarded
        /\ q.tier = "free"

\* the paid calls the contract's throttle granted to the caller at remoteAddr
\* since the last refill
PaidGrantsTo(contractId, remoteAddr) ==
    SumCopies({e \in BagToSet(granted) :
                  e[1] = contractId /\ e[2] = Key(contractId) /\ e[3] = remoteAddr})

\* C18: the queriesPerMinute throttle of paidTier has one bucket for each
\* contract and caller address, so paidTier rejects a call with 429 only when
\* the caller's own address has been granted a paid call of the contract since
\* the last refill: a caller is never turned away by what another address drew.
C18_ThrottlePerCaller ==
    [][\A q \in InFlight :
          (q.pc = "paidLimit" /\ Stepped(q)) =>
              \A q2 \in BagToSet(req') :
                  (Entered(q2) /\ q2.code = 429) =>
                      PaidGrantsTo(q.ptContract.Id, q.remoteAddr) >= 1]_vars

\* a minute passes for the limiters: this step is the refill
Refilled == visitors' # visitors /\ req' = req

\* C19: a limiter is created with burst Q, the quota it was asked for, and it
\* gains Q tokens in a minute, so a minute after its bucket was emptied it is
\* full again and grants Q further calls.
C19_RefillsQuotaPerMinute ==
    [][Refilled =>
          \A k \in DOMAIN visitors' :
              visitors'[k].tokens = visitors'[k].burst]_vars

\* the status paidTier returned is not OK
NonOK(q) == q.code \in {500, 402, 400, 429}

\* C20: a call of paidTier that returns a non-OK status has written neither
\* the claim store nor the contract cache: the step at which it returns leaves
\* both unchanged, the steps of the call before the claim write leave both
\* unchanged, and a call that has written the claim returns OK.
C20_RejectionWritesNothing ==
    [][\A q \in InFlight :
          Stepped(q) =>
              /\ \A q2 \in BagToSet(req') :
                    (Entered(q2) /\ NonOK(q2)) =>
                        /\ q.code = 0
                        /\ q.pc \in {"paidGet", "paidClaim", "paidLimit", "paidSet"}
                        /\ UNCHANGED <<claimStore, memStore>>
              /\ q.pc \notin {"paidSet", "paidPut"} => UNCHANGED <<claimStore, memStore>>
              /\ q.pc = "paidSet" =>
                    \/ UNCHANGED <<claimStore, memStore>>
                    \/ \E q2 \in BagToSet(req') :
                          Entered(q2) /\ q2.pc = "paidPut" /\ q2.code = 0
              /\ q.pc = "paidPut" =>
                    /\ returned' # <<>>
                    /\ returned'[1].code = 200]_vars

\* a call was rejected while the stores hold the claim and the contract of an
\* earlier call, with the earlier nonce
C20_Witness ==
    \E q \in Finished :
        /\ NonOK(q)
        /\ ValidProof(q)
        /\ Key(q.aa.ContractId) \in DOMAIN claimStore
        /\ claimStore[Key(q.aa.ContractId)].Nonce # q.aa.Nonce
        /\ memStore[Key(q.aa.ContractId)].Nonce = claimStore[Key(q.aa.ContractId)].Nonce

====
